---- MODULE Spec2Model ----
(***************************************************************************)
(* State-machine model of HubSpotApi (the ticketing core of the agent      *)
(* runner): the owner directory cache (listOwners, findOwnersByName), the  *)
(* filter translation of listTickets and the conversation assembly of      *)
(* getTicketEmails.  Strings whose characters matter are sequences of      *)
(* one-character strings; an optional JSON field is a key that is or is    *)
(* not in the record's DOMAIN; a nullable value is <<>> (null) or <<v>>.   *)
(***************************************************************************)
EXTENDS Integers, Sequences, FiniteSets, TLC

VARIABLES
  directory,    \* upstream owner directory: what ownersApi.getPage would return now
  ownerCache,   \* HubSpotApi.ownerCache: None, or Some(sequence of Owner)
  pc,           \* per invocation slot: "idle", "awaitOwners", "returned"
  kind,         \* per slot: "none", "list" (listOwners), "find" (findOwnersByName)
  term,         \* per slot: the searchName argument of findOwnersByName
  fetched,      \* per slot: upstream directory fetches issued by this invocation
  outcome,      \* per slot: "none", "hit" (cache), "fetched", "failed"
  owners,       \* per slot: the sequence listOwners returned to this invocation
  ret,          \* per slot: the value the invocation returned
  firstSuccess, \* history: None, or Some(the cache content first written)
  prev,         \* history: the outcome of the invocation that completed last
  succeeded     \* history: some invocation has completed with outcome "fetched" or "hit"

VARIABLES
  tpc,          \* listTickets: "idle", "awaitTickets", "returned", "thrown"
  tfilters,     \* the filters argument: None (no argument) or Some(ListTicketsFilters)
  filterGroups, \* the local clause list listTickets builds
  trequest,     \* the upstream request in flight: None or Some(request)
  tcalls,       \* upstream requests issued by this invocation
  tpath,        \* "none", "search" (searchApi.doSearch) or "list" (basicApi.getPage)
  tret,         \* the sequence listTickets returned
  tvendor       \* history: "none", "ok" or "rejected", how the upstream request ended

VARIABLES
  epc,          \* getTicketEmails: "idle", "awaitTicket", "awaitEmail", "done", "failed"
  ticketSeen,   \* "none", or how the fetched ticket carried its email associations
  evendor,      \* how the ticket fetch of getTicketEmails ended: "none", "ok", "rejected"
  emailIds,     \* the local emailIds array
  idx,          \* position in emailIds of the message being fetched (0: none)
  emails,       \* the local emails array
  eret,         \* the sequence getTicketEmails returned
  ticketFetches,\* ticket fetches issued by this invocation
  fetchLog,     \* the ids of the per-message fetches issued, in order
  thrown,       \* history: the ids whose fetch or normalization threw
  rejected      \* history: the ids whose per-message fetch rejected

VARIABLES
  dpc,          \* getTicketDetails: "idle", "awaitTicket", "returned", "thrown"
  drequest,     \* the upstream getById request in flight: None or Some(request)
  dcalls,       \* upstream requests issued by this invocation
  dvendor,      \* history: "none", "ok" or "rejected", how the upstream request ended
  dret          \* None, or Some(the HubSpotTicket getTicketDetails returned)

VARIABLES
  npc,          \* addNoteToTicket: "idle", "awaitCreate", "returned", "thrown"
  nargs,        \* None, or Some([ticketId, noteBody]) for the invocation at hand
  nrequest,     \* the upstream create request in flight: None or Some(request)
  ncalls,       \* upstream requests issued by this invocation
  nvendor,      \* history: "none", "ok" or "rejected", how the create call ended
  nret          \* None, or Some(the boolean addNoteToTicket returned)

VARIABLES
  mpc,          \* getEmailContent on one record: "fetched" (record at hand), "done"
  mrec,         \* the message record the per-message fetch resolved with
  mnow,         \* the clock reading of new Date()
  mres          \* None (null), or Some(the TicketEmail getEmailContent returned)

VARIABLES
  apc,          \* listAppInsights: "idle", "awaitSubscription", "awaitResources",
                \* "returned", "thrown"
  subscriptionId, \* AzureApi.subscriptionId: None or Some(id)
  avendor,      \* history: "none", "ok" or "rejected", how the upstream requests ended
  aret          \* the sequence listAppInsights returned

VARIABLES
  tool,         \* the MCP tool whose handler is running, "none" when none is
  toolArgs,     \* None, or Some([limit]) for list_tickets: twice args.limit
  toolResult    \* None, or Some(the result the handler has built)

VARIABLES
  fpc,          \* FirebaseApi method: "idle", "awaitGet", "awaitExists", "awaitDownload",
                \* "awaitMetadata", "returned", "thrown"
  fop,          \* "none", "doc" (getFirestoreDoc) or "file" (getStorageFile)
  fargs,        \* None, or Some(the docId or filePath argument)
  flog,         \* the upstream requests issued by this invocation, in order
  fanswer,      \* history: "none", "found" or "missing", what the existence check saw
  ferror,       \* "none", "notFound" (the method's own error) or "upstream"
  fret,         \* None, or Some(the value the method returned)
  docs,         \* the ids of the documents the Firestore collection holds
  files         \* the paths of the files the bucket holds

ownerVars == <<directory, ownerCache, pc, kind, term, fetched, outcome, owners, ret,
               firstSuccess, prev, succeeded>>
ticketVars == <<tpc, tfilters, filterGroups, trequest, tcalls, tpath, tret, tvendor>>
emailVars == <<epc, ticketSeen, evendor, emailIds, idx, emails, eret, ticketFetches, fetchLog, thrown,
              rejected>>
detailVars == <<dpc, drequest, dcalls, dvendor, dret>>
noteVars == <<npc, nargs, nrequest, ncalls, nvendor, nret>>
msgVars == <<mpc, mrec, mnow, mres>>
azureVars == <<apc, subscriptionId, avendor, aret>>
toolVars == <<tool, toolArgs, toolResult>>
firebaseVars == <<fpc, fop, fargs, flog, fanswer, ferror, fret, docs, files>>
vars == <<ownerVars, ticketVars, emailVars, detailVars, noteVars,
          msgVars, azureVars, toolVars, firebaseVars>>

\* What the actions of one component leave alone: every other component.
notOwnerVars == <<ticketVars, emailVars, detailVars, noteVars,
                  msgVars, azureVars, toolVars, firebaseVars>>
notTicketVars == <<ownerVars, emailVars, detailVars, noteVars,
                   msgVars, azureVars, toolVars, firebaseVars>>
notEmailVars == <<ownerVars, ticketVars, detailVars, noteVars,
                  msgVars, azureVars, toolVars, firebaseVars>>
notDetailVars == <<ownerVars, ticketVars, emailVars, noteVars,
                   msgVars, azureVars, toolVars, firebaseVars>>
notNoteVars == <<ownerVars, ticketVars, emailVars, detailVars,
                 msgVars, azureVars, toolVars, firebaseVars>>
notMsgVars == <<ownerVars, ticketVars, emailVars, detailVars,
                noteVars, azureVars, toolVars, firebaseVars>>
notAzureVars == <<ownerVars, ticketVars, emailVars, detailVars,
                  noteVars, msgVars, toolVars, firebaseVars>>
notToolVars == <<ownerVars, ticketVars, emailVars, detailVars,
                 noteVars, msgVars, azureVars, firebaseVars>>
notFirebaseVars == <<ownerVars, ticketVars, emailVars, detailVars,
                     noteVars, msgVars, azureVars, toolVars>>

----------------------------------------------------------------------------
(* Bounds of the model *)

MaxCalls == 2
MaxOwners == 2
MaxTermLen == 2
MaxFilterLen == 2
MaxPage == 2
MaxEmails == 3
MaxTime == 2
MaxHtmlLen == 3
MaxTextLen == 2

----------------------------------------------------------------------------
(* Generic helpers *)

None == <<>>
Some(x) == <<x>>

SeqsUpTo(S, n) == UNION {[1..k -> S] : k \in 0..n}

----------------------------------------------------------------------------
(* Strings: String.prototype.toLowerCase, includes, trim *)

ToLowerChar(ch) ==
  CASE ch = "R" -> "r"
    [] ch = "J" -> "j"
    [] ch = "A" -> "a"
    [] ch = "B" -> "b"
    [] ch = "Y" -> "y"
    [] OTHER -> ch

toLowerCase(s) == [i \in 1..Len(s) |-> ToLowerChar(s[i])]

includes(s, t) ==
  \E i \in 0..(Len(s) - Len(t)) : SubSeq(s, i + 1, i + Len(t)) = t

\* The white space trim removes: the space and the line terminator.
IsSpace(ch) == ch \in {" ", "\n"}

RECURSIVE trimStart(_)
trimStart(s) ==
  IF s # <<>> /\ IsSpace(Head(s)) THEN trimStart(Tail(s)) ELSE s

RECURSIVE trimEnd(_)
trimEnd(s) ==
  IF s # <<>> /\ IsSpace(s[Len(s)]) THEN trimEnd(SubSeq(s, 1, Len(s) - 1)) ELSE s

trim(s) == trimEnd(trimStart(s))

----------------------------------------------------------------------------
(* The upstream owner directory *)

\* Owner objects as the directory API can return them: id always, the other
\* fields optional ({id, email?, firstName?, lastName?}).
RawOwnerPool ==
  { [id |-> "1", firstName |-> <<"R", "y">>, lastName |-> <<"J", "o">>,
     email |-> <<"r", "y", "@", "x">>],
    [id |-> "2", firstName |-> <<"A", "l">>, lastName |-> <<>>,
     email |-> <<"R", "y", "@", "x">>],
    [id |-> "3", lastName |-> <<"B", "r", "y">>] }

Directories == SeqsUpTo(RawOwnerPool, MaxOwners)

\* The directory versions the concurrent specification moves between.
DirectoryVersions ==
  { <<>>,
    <<[id |-> "1", firstName |-> <<"R", "y">>, lastName |-> <<"J", "o">>,
       email |-> <<"r", "y", "@", "x">>]>>,
    <<[id |-> "3", lastName |-> <<"B", "r", "y">>],
      [id |-> "2", firstName |-> <<"A", "l">>, lastName |-> <<>>,
       email |-> <<"R", "y", "@", "x">>]>> }

TermChars == {"r", "Y", "j", " ", "@"}
SearchTerms == SeqsUpTo(TermChars, MaxTermLen)

\* owner.f || '' : an absent (or empty) field reads as the empty string.
OrEmpty(o, f) == IF f \in DOMAIN o THEN o[f] ELSE <<>>

\* The callback of response.results.map in listOwners.
MapOwner(o) ==
  LET firstName == OrEmpty(o, "firstName")
      lastName == OrEmpty(o, "lastName")
  IN [id |-> o.id,
      email |-> OrEmpty(o, "email"),
      firstName |-> firstName,
      lastName |-> lastName,
      fullName |-> trim(firstName \o <<" ">> \o lastName)]

MapOwners(results) == [i \in 1..Len(results) |-> MapOwner(results[i])]

\* Mutant of OwnerMatches: the four fields combined by AND.
OwnerMatchesAll(owner, lowerSearch) ==
  /\ includes(toLowerCase(owner.fullName), lowerSearch)
  /\ includes(toLowerCase(owner.firstName), lowerSearch)
  /\ includes(toLowerCase(owner.lastName), lowerSearch)
  /\ includes(toLowerCase(owner.email), lowerSearch)

\* The predicate of owners.filter in findOwnersByName.
OwnerMatches(owner, lowerSearch) ==
  \/ includes(toLowerCase(owner.fullName), lowerSearch)
  \/ includes(toLowerCase(owner.firstName), lowerSearch)
  \/ includes(toLowerCase(owner.lastName), lowerSearch)
  \/ includes(toLowerCase(owner.email), lowerSearch)

\* The callback of .map in findOwnersByName.
ProjectOwner(owner) == [id |-> owner.id, email |-> owner.email, fullName |-> owner.fullName]

RECURSIVE FilterMatching(_, _)
\* owners.filter(...) in findOwnersByName: the matching owners, in order.
FilterMatching(list, lowerSearch) ==
  IF list = <<>> THEN <<>>
  ELSE (IF OwnerMatches(Head(list), lowerSearch) THEN <<Head(list)>> ELSE <<>>)
         \o FilterMatching(Tail(list), lowerSearch)

\* findOwnersByName after its await of listOwners.
FilterOwners(list, searchName) ==
  LET lowerSearch == toLowerCase(searchName)
      kept == FilterMatching(list, lowerSearch)
  IN [i \in 1..Len(kept) |-> ProjectOwner(kept[i])]

\* What an invocation of kind k returns once listOwners has handed it `list`.
Result(k, t, list) == IF k = "find" THEN FilterOwners(list, t) ELSE list

----------------------------------------------------------------------------
(* listOwners / findOwnersByName *)

OwnersInit ==
  /\ ownerCache = None
  /\ pc = [c \in 1..MaxCalls |-> "idle"]
  /\ kind = [c \in 1..MaxCalls |-> "none"]
  /\ term = [c \in 1..MaxCalls |-> <<>>]
  /\ fetched = [c \in 1..MaxCalls |-> 0]
  /\ outcome = [c \in 1..MaxCalls |-> "none"]
  /\ owners = [c \in 1..MaxCalls |-> <<>>]
  /\ ret = [c \in 1..MaxCalls |-> <<>>]
  /\ firstSuccess = None
  /\ prev = "none"
  /\ succeeded = FALSE

\* Mutant of EnterListOwners: the cache is not consulted.
EnterListOwnersNoCache(c, k, t) ==
  /\ kind' = [kind EXCEPT ![c] = k]
  /\ term' = [term EXCEPT ![c] = t]
  /\ pc' = [pc EXCEPT ![c] = "awaitOwners"]
  /\ fetched' = [fetched EXCEPT ![c] = 1]
  /\ outcome' = [outcome EXCEPT ![c] = "none"]
  /\ UNCHANGED <<owners, ret>>

\* Mutant of EnterListOwners: an empty cached array counts as no cache.
EnterListOwnersNonEmpty(c, k, t) ==
  /\ kind' = [kind EXCEPT ![c] = k]
  /\ term' = [term EXCEPT ![c] = t]
  /\ IF ownerCache # None /\ ownerCache[1] # <<>>
     THEN /\ pc' = [pc EXCEPT ![c] = "returned"]
          /\ fetched' = [fetched EXCEPT ![c] = 0]
          /\ outcome' = [outcome EXCEPT ![c] = "hit"]
          /\ owners' = [owners EXCEPT ![c] = ownerCache[1]]
          /\ ret' = [ret EXCEPT ![c] = Result(k, t, ownerCache[1])]
     ELSE /\ pc' = [pc EXCEPT ![c] = "awaitOwners"]
          /\ fetched' = [fetched EXCEPT ![c] = 1]
          /\ outcome' = [outcome EXCEPT ![c] = "none"]
          /\ UNCHANGED <<owners, ret>>

\* listOwners up to its first suspension: the cache check, and either the
\* return of the cached array or the upstream getPage request.
EnterListOwners(c, k, t) ==
  /\ kind' = [kind EXCEPT ![c] = k]
  /\ term' = [term EXCEPT ![c] = t]
  /\ IF ownerCache # None
     THEN /\ pc' = [pc EXCEPT ![c] = "returned"]
          /\ fetched' = [fetched EXCEPT ![c] = 0]
          /\ outcome' = [outcome EXCEPT ![c] = "hit"]
          /\ owners' = [owners EXCEPT ![c] = ownerCache[1]]
          /\ ret' = [ret EXCEPT ![c] = Result(k, t, ownerCache[1])]
     ELSE /\ pc' = [pc EXCEPT ![c] = "awaitOwners"]
          /\ fetched' = [fetched EXCEPT ![c] = 1]
          /\ outcome' = [outcome EXCEPT ![c] = "none"]
          /\ UNCHANGED <<owners, ret>>

\* A caller invokes listOwners().
ListOwnersCall(c) ==
  /\ pc[c] = "idle"
  /\ EnterListOwners(c, "list", <<>>)
  /\ UNCHANGED <<directory, ownerCache, firstSuccess, prev, succeeded>>
  /\ UNCHANGED notOwnerVars

\* A caller invokes findOwnersByName(searchName), which awaits listOwners().
FindOwnersCall(c, searchName) ==
  /\ pc[c] = "idle"
  /\ EnterListOwners(c, "find", searchName)
  /\ UNCHANGED <<directory, ownerCache, firstSuccess, prev, succeeded>>
  /\ UNCHANGED notOwnerVars

\* getPage resolves: the try block maps the page, stores it and returns it.
OwnersResponse(c) ==
  /\ pc[c] = "awaitOwners"
  /\ LET mapped == MapOwners(directory)
     IN /\ ownerCache' = Some(mapped)
        /\ owners' = [owners EXCEPT ![c] = mapped]
        /\ ret' = [ret EXCEPT ![c] = Result(kind[c], term[c], mapped)]
        /\ firstSuccess' = IF firstSuccess = None THEN Some(mapped) ELSE firstSuccess
  /\ pc' = [pc EXCEPT ![c] = "returned"]
  /\ outcome' = [outcome EXCEPT ![c] = "fetched"]
  /\ UNCHANGED <<directory, kind, term, fetched, prev, succeeded>>
  /\ UNCHANGED notOwnerVars

\* Mutant of OwnersFailure: the catch block stores the empty result.
OwnersFailureCached(c) ==
  /\ pc[c] = "awaitOwners"
  /\ ownerCache' = Some(<<>>)
  /\ owners' = [owners EXCEPT ![c] = <<>>]
  /\ ret' = [ret EXCEPT ![c] = Result(kind[c], term[c], <<>>)]
  /\ pc' = [pc EXCEPT ![c] = "returned"]
  /\ outcome' = [outcome EXCEPT ![c] = "failed"]
  /\ UNCHANGED <<directory, kind, term, fetched, firstSuccess, prev, succeeded>>
  /\ UNCHANGED notOwnerVars

\* getPage rejects (or the mapping throws): the catch block returns [].
OwnersFailure(c) ==
  /\ pc[c] = "awaitOwners"
  /\ owners' = [owners EXCEPT ![c] = <<>>]
  /\ ret' = [ret EXCEPT ![c] = Result(kind[c], term[c], <<>>)]
  /\ pc' = [pc EXCEPT ![c] = "returned"]
  /\ outcome' = [outcome EXCEPT ![c] = "failed"]
  /\ UNCHANGED <<directory, ownerCache, kind, term, fetched, firstSuccess, prev, succeeded>>
  /\ UNCHANGED notOwnerVars

\* The caller takes the returned value; the slot is free for the next call.
OwnersReturn(c) ==
  /\ pc[c] = "returned"
  /\ pc' = [pc EXCEPT ![c] = "idle"]
  /\ kind' = [kind EXCEPT ![c] = "none"]
  /\ term' = [term EXCEPT ![c] = <<>>]
  /\ fetched' = [fetched EXCEPT ![c] = 0]
  /\ outcome' = [outcome EXCEPT ![c] = "none"]
  /\ owners' = [owners EXCEPT ![c] = <<>>]
  /\ ret' = [ret EXCEPT ![c] = <<>>]
  /\ prev' = outcome[c]
  /\ succeeded' = (succeeded \/ outcome[c] \in {"fetched", "hit"})
  /\ UNCHANGED <<directory, ownerCache, firstSuccess>>
  /\ UNCHANGED notOwnerVars

\* The upstream directory changes (owners are added, removed, renamed).
DirectoryChange(d) ==
  /\ d # directory
  /\ directory' = d
  /\ UNCHANGED <<ownerCache, pc, kind, term, fetched, outcome, owners, ret, firstSuccess,
                 prev, succeeded>>
  /\ UNCHANGED notOwnerVars

----------------------------------------------------------------------------
(* listTickets: the filter translation *)

\* An array argument: absent, or the first n of the values v1, v2, ... (n >= 0).
FilterValue(i) == <<"v", i>>
ArrayArgs == {None} \cup {Some([i \in 1..n |-> FilterValue(i)]) : n \in 0..MaxFilterLen}
TextArgs == {None, Some(""), Some("x")}

\* interface ListTicketsFilters: every field optional.
FilterArgs ==
  {None} \cup
  {Some(f) : f \in [groups : ArrayArgs, statuses : ArrayArgs, priorities : ArrayArgs,
                    owners : ArrayArgs, searchText : TextArgs]}

\* Tickets as the upstream pages carry them.
UpstreamTickets ==
  { [id |-> "t1", properties |-> [subject |-> "s1"], archived |-> FALSE],
    [id |-> "t2", properties |-> [subject |-> "s2"], archived |-> TRUE] }
UpstreamPages == SeqsUpTo(UpstreamTickets, MaxPage)

TICKET_PROPERTIES ==
  <<"subject", "content", "group", "hs_ticket_priority", "hs_pipeline_stage",
    "createdate", "hubspot_owner_id">>

PageLimit == 100

\* filters?.f : undefined when filters is undefined or has no f.
Field(filters, f) == IF filters = None THEN None ELSE filters[1][f]

\* Mutant of HasLength: the array is there (filters?.f as the condition).
HasLengthPresent(filters, f) == Field(filters, f) # None

\* filters?.f?.length as a condition: the array is there and is not empty.
HasLength(filters, f) ==
  /\ Field(filters, f) # None
  /\ Len(Field(filters, f)[1]) > 0

\* filters?.searchText as a condition: the string is there and is not "".
HasText(filters) ==
  /\ Field(filters, "searchText") # None
  /\ Field(filters, "searchText")[1] # ""

InClause(filters, f, propertyName) ==
  IF HasLength(filters, f)
  THEN <<[propertyName |-> propertyName, operator |-> "IN", values |-> Field(filters, f)[1]]>>
  ELSE <<>>

TextClause(filters) ==
  IF HasText(filters)
  THEN <<[propertyName |-> "subject", operator |-> "CONTAINS_TOKEN",
          value |-> Field(filters, "searchText")[1]]>>
  ELSE <<>>

\* The five pushes onto filterGroups, in the order of the code.
BuildFilterGroups(filters) ==
  InClause(filters, "groups", "group")
    \o InClause(filters, "statuses", "hs_pipeline_stage")
    \o InClause(filters, "priorities", "hs_ticket_priority")
    \o InClause(filters, "owners", "hubspot_owner_id")
    \o TextClause(filters)

\* Mutant of SearchRequest: one filter group per clause (groups are ORed).
SearchRequestOr(clauses) ==
  [api |-> "doSearch",
   filterGroups |-> [i \in 1..Len(clauses) |-> [filters |-> <<clauses[i]>>]],
   properties |-> TICKET_PROPERTIES, limit |-> PageLimit, sorts |-> <<>>, after |-> "0"]

SearchRequest(clauses) ==
  [api |-> "doSearch", filterGroups |-> <<[filters |-> clauses]>>,
   properties |-> TICKET_PROPERTIES, limit |-> PageLimit, sorts |-> <<>>, after |-> "0"]

PageRequest ==
  [api |-> "getPage", limit |-> PageLimit, properties |-> TICKET_PROPERTIES,
   archived |-> FALSE]

\* Mutant of UpstreamRequest: the search is issued whatever the clause list.
UpstreamRequestSearch(clauses) == SearchRequest(clauses)

\* if (filterGroups.length > 0) doSearch(...) else getPage(...)
UpstreamRequest(clauses) ==
  IF Len(clauses) > 0 THEN SearchRequest(clauses) ELSE PageRequest

\* results.map(ticket => ({id, properties}))
MapTickets(results) ==
  [i \in 1..Len(results) |-> [id |-> results[i].id, properties |-> results[i].properties]]

TicketsInit ==
  /\ tpc = "idle"
  /\ tfilters = None
  /\ filterGroups = <<>>
  /\ trequest = None
  /\ tcalls = 0
  /\ tpath = "none"
  /\ tret = <<>>
  /\ tvendor = "none"

\* listTickets(filters) up to its await: the clause list and the one request.
ListTicketsCall(filters) ==
  /\ tpc = "idle"
  /\ tfilters' = filters
  /\ filterGroups' = BuildFilterGroups(filters)
  /\ trequest' = Some(UpstreamRequest(filterGroups'))
  /\ tcalls' = 1
  /\ tpath' = IF Len(filterGroups') > 0 THEN "search" ELSE "list"
  /\ tpc' = "awaitTickets"
  /\ tret' = <<>>
  /\ tvendor' = "none"
  /\ UNCHANGED notTicketVars

\* The request resolves with a page: the arguments and locals go out of scope.
TicketsResponse(results) ==
  /\ tpc = "awaitTickets"
  /\ tret' = MapTickets(results)
  /\ tpc' = "returned"
  /\ tfilters' = None
  /\ filterGroups' = <<>>
  /\ trequest' = None
  /\ tvendor' = "ok"
  /\ UNCHANGED <<tcalls, tpath>>
  /\ UNCHANGED notTicketVars

\* A variant that issues the request again after a rejection, once.
TicketsFailureRetry ==
  /\ tpc = "awaitTickets"
  /\ tcalls < 2
  /\ tcalls' = tcalls + 1
  /\ tvendor' = "rejected"
  /\ UNCHANGED <<tpc, tfilters, filterGroups, trequest, tpath, tret>>
  /\ UNCHANGED notTicketVars

\* The request rejects: nothing catches it, listTickets rejects.
TicketsFailure ==
  /\ tpc = "awaitTickets"
  /\ tpc' = "thrown"
  /\ tfilters' = None
  /\ filterGroups' = <<>>
  /\ trequest' = None
  /\ tvendor' = "rejected"
  /\ UNCHANGED <<tcalls, tpath, tret>>
  /\ UNCHANGED notTicketVars

\* The caller takes the outcome.
TicketsReturn ==
  /\ tpc \in {"returned", "thrown"}
  /\ tpc' = "idle"
  /\ tcalls' = 0
  /\ tpath' = "none"
  /\ tret' = <<>>
  /\ tvendor' = "none"
  /\ UNCHANGED <<tfilters, filterGroups, trequest>>
  /\ UNCHANGED notTicketVars

TicketsNext ==
  \/ \E filters \in FilterArgs : ListTicketsCall(filters)
  \/ \E results \in UpstreamPages : TicketsResponse(results)
  \/ TicketsFailure
  \/ TicketsReturn

----------------------------------------------------------------------------
(* getTicketEmails: the conversation assembly *)

EmailIdSet == 1..MaxEmails
Times == 0..MaxTime

\* ticket.associations?.emails?.results as the upstream can send it: missing
\* (None) or the linked ids, each id once.
AssocChoices ==
  {None} \cup
  {Some(ids) : ids \in {q \in SeqsUpTo(EmailIdSet, MaxEmails) :
                          \A i, j \in 1..Len(q) : i # j => q[i] # q[j]}}

\* A timestamp property of a message: absent (or ""), the decimal epoch-millis
\* string of t ("ms"), the ISO date string of t ("iso"), or a string that is
\* neither a number nor a date ("garbage").
Absent == [k |-> "absent", t |-> 0]
Garbage == [k |-> "garbage", t |-> 0]
MillisProps == {Absent, Garbage} \cup {[k |-> "ms", t |-> t] : t \in Times}
DateProps == {Absent, Garbage} \cup {[k |-> "iso", t |-> t] : t \in Times}

\* email.createdAt of the fetched record: absent, a Date (valid or invalid),
\* or a string (an ISO date or anything else).
CreatedAtVals ==
  {Absent, [k |-> "invalidDate", t |-> 0], [k |-> "garbage", t |-> 0]}
    \cup {[k |-> "date", t |-> t] : t \in Times}
    \cup {[k |-> "iso", t |-> t] : t \in Times}

\* Message records without a body, with every combination of the sources.
AllEmailRecords ==
  [hs_email_html : {None}, hs_email_text : {None},
   hs_email_date : MillisProps, hs_timestamp : MillisProps, hs_createdate : DateProps,
   createdAt : CreatedAtVals]

TimestampFields == {"hs_email_date", "hs_timestamp", "hs_createdate", "createdAt"}

\* The records the assembly is run on: at most one timestamp source present.
EmailRecords ==
  {r \in AllEmailRecords :
     Cardinality({f \in TimestampFields : r[f] # Absent}) <= 1}

----------------------------------------------------------------------------
(* getEmailContent: the text normalizer *)

\* The markup of a message as a sequence of tokens: a letter, a space, a
\* line break element, a paragraph boundary, the entities of the two angle
\* brackets, an image element, and a link element around the letter a.
HtmlTokens == {"a", " ", "<br>", "<p>", "&lt;", "&gt;", "<img>", "<a>"}

\* The characters of a plain-text body.
TextChars == {"a", " ", "\n"}

\* hs_email_html and hs_email_text as the upstream sends them: missing (None)
\* or a string, possibly the empty one.
HtmlVals == {None} \cup {Some(h) : h \in SeqsUpTo(HtmlTokens, MaxHtmlLen)}
TextVals == {None} \cup {Some(t) : t \in SeqsUpTo(TextChars, MaxTextLen)}

\* What the markup converter writes for one token: text as it stands, the
\* entities decoded, one line break for <br>, a blank line between paragraphs,
\* nothing for an image (format 'skip'), and the text of a link without its
\* address (ignoreHref).
RenderToken(tok) ==
  CASE tok = "<br>" -> <<"\n">>
    [] tok = "<p>" -> <<"\n", "\n">>
    [] tok = "&lt;" -> <<"<">>
    [] tok = "&gt;" -> <<">">>
    [] tok = "<img>" -> <<>>
    [] tok = "<a>" -> <<"a">>
    [] OTHER -> <<tok>>

\* htmlToText(html, {wordwrap: 120, selectors: [a: ignoreHref, img: skip]}),
\* for lines shorter than the wrap width.
RECURSIVE htmlToText(_)
htmlToText(html) ==
  IF html = <<>> THEN <<>> ELSE RenderToken(Head(html)) \o htmlToText(Tail(html))

\* s.split('\n')
RECURSIVE split(_)
split(s) ==
  IF \A i \in 1..Len(s) : s[i] # "\n" THEN <<s>>
  ELSE LET i == CHOOSE j \in 1..Len(s) :
                  s[j] = "\n" /\ \A k \in 1..(j - 1) : s[k] # "\n"
       IN <<SubSeq(s, 1, i - 1)>> \o split(SubSeq(s, i + 1, Len(s)))

\* lines.join('\n')
RECURSIVE join(_)
join(lines) ==
  IF lines = <<>> THEN <<>>
  ELSE IF Len(lines) = 1 THEN lines[1]
  ELSE lines[1] \o <<"\n">> \o join(Tail(lines))

IsNotGt(ch) == ch # ">"

\* Mutant of KeepLine: the stripped line is not trimmed.
KeepLineUntrimmed(line) == Len(SelectSeq(line, IsNotGt)) > 0

\* The filter callback: line.replace(/>/g, '').trim().length > 0
KeepLine(line) == Len(trim(SelectSeq(line, IsNotGt))) > 0

\* The length of the run of line terminators that starts s.
RECURSIVE NewlineRun(_)
NewlineRun(s) ==
  IF s # <<>> /\ Head(s) = "\n" THEN 1 + NewlineRun(Tail(s)) ELSE 0

\* s.replace(/\n{3,}/g, '\n\n')
RECURSIVE CollapseNewlines(_)
CollapseNewlines(s) ==
  IF s = <<>> THEN <<>>
  ELSE LET n == NewlineRun(s)
       IN IF n >= 3 THEN <<"\n", "\n">> \o CollapseNewlines(SubSeq(s, n + 1, Len(s)))
          ELSE IF n >= 1 THEN SubSeq(s, 1, n) \o CollapseNewlines(SubSeq(s, n + 1, Len(s)))
          ELSE <<Head(s)>> \o CollapseNewlines(Tail(s))

\* A variant of the clean-up that only trims.
CleanUpTrimOnly(text) == trim(text)

\* text.split('\n').filter(...).join('\n'): the text after the line filter.
FilterLines(text) == join(SelectSeq(split(text), KeepLine))

\* The clean-up of the converted text: split, filter, join, collapse, trim.
CleanUp(text) ==
  trim(CollapseNewlines(FilterLines(text)))

\* The truthiness of an optional string property.
Truthy(v) == v # None /\ v[1] # <<>>

\* props.hs_email_html || props.hs_email_text || ''
RawContent(rec) ==
  IF Truthy(rec.hs_email_html) THEN rec.hs_email_html[1]
  ELSE IF Truthy(rec.hs_email_text) THEN rec.hs_email_text[1]
  ELSE <<>>

\* A variant that prefers the plain-text field.
CleanTextTextFirst(rec) ==
  IF Truthy(rec.hs_email_text) THEN rec.hs_email_text[1]
  ELSE IF Truthy(rec.hs_email_html) THEN CleanUp(htmlToText(rec.hs_email_html[1]))
  ELSE <<>>

\* A variant that trims the plain-text body as well.
CleanTextTrimmed(rec) ==
  IF Truthy(rec.hs_email_html)
    THEN CleanUp(htmlToText(rec.hs_email_html[1]))
    ELSE trim(RawContent(rec))

\* cleanText: the raw content, replaced by the cleaned conversion of the
\* markup when there is markup.
CleanText(rec) ==
  IF Truthy(rec.hs_email_html)
    THEN CleanUp(htmlToText(rec.hs_email_html[1]))
    ELSE RawContent(rec)

----------------------------------------------------------------------------
(* getEmailContent: the timestamp chain *)

\* Message records with every body, dated by hs_email_date.
BodyRecords ==
  [hs_email_html : HtmlVals, hs_email_text : TextVals,
   hs_email_date : {[k |-> "ms", t |-> 0]}, hs_timestamp : {Absent},
   hs_createdate : {Absent}, createdAt : {Absent}]

\* A JavaScript number: NaN or the value v.
NaN == [nan |-> TRUE, v |-> 0]
Num(n) == [nan |-> FALSE, v |-> n]

\* parseInt(string)
parseInt(p) == IF p.k = "ms" THEN Num(p.t) ELSE NaN

\* new Date(string).getTime()
DateParse(p) == IF p.k = "iso" THEN Num(p.t) ELSE NaN

\* new Date(x).toISOString(): a RangeError (None) on an invalid date, else the
\* ISO string of the time value.
toISOString(n) == IF n.nan THEN None ELSE Some([k |-> "iso", t |-> n.v])

\* The timestamp chain of getEmailContent: None when it throws, else
\* Some(createdAt string).
ResolveCreatedAt(rec, now) ==
  IF rec.hs_email_date # Absent THEN toISOString(parseInt(rec.hs_email_date))
  ELSE IF rec.hs_timestamp # Absent THEN toISOString(parseInt(rec.hs_timestamp))
  ELSE IF rec.hs_createdate # Absent THEN toISOString(DateParse(rec.hs_createdate))
  ELSE IF rec.createdAt # Absent
    THEN CASE rec.createdAt.k \in {"iso", "garbage"} -> Some(rec.createdAt)
           [] rec.createdAt.k = "date" -> toISOString(Num(rec.createdAt.t))
           [] OTHER -> toISOString(NaN)
  ELSE toISOString(Num(now))

\* getEmailContent once the record is there: None for the null of the catch
\* block, else Some(TicketEmail); subject, from and to are copied as they are
\* and left out here.
GetEmailContent(emailId, rec, now) ==
  LET createdAt == ResolveCreatedAt(rec, now)
  IN IF createdAt = None THEN None
     ELSE Some([id |-> emailId, text |-> CleanText(rec), createdAt |-> createdAt[1]])

\* a.createdAt ? new Date(a.createdAt).getTime() : 0  (createdAt is never "")
SortDate(a) == DateParse(a.createdAt)

\* The comparator of emails.sort: dateA - dateB.
CompareFn(a, b) ==
  IF SortDate(a).nan \/ SortDate(b).nan THEN NaN ELSE Num(SortDate(a).v - SortDate(b).v)

\* Array.prototype.sort's use of the comparator: a NaN result counts as +0.
SortCompare(a, b) == IF CompareFn(a, b).nan THEN 0 ELSE CompareFn(a, b).v

RECURSIVE CountRun(_, _, _, _)
\* The run that starts the array: ascending, or strictly descending.
CountRun(a, i, runLength, isDescending) ==
  IF i > Len(a) THEN runLength
  ELSE LET order == SortCompare(a[i], a[i - 1])
       IN IF (isDescending /\ order >= 0) \/ (~isDescending /\ order < 0)
          THEN runLength
          ELSE CountRun(a, i + 1, runLength + 1, isDescending)

ReverseRange(a, n) == [i \in 1..Len(a) |-> IF i <= n THEN a[n + 1 - i] ELSE a[i]]

RECURSIVE BinarySearch(_, _, _, _)
\* Where pivot goes among a[left..right-1]: after every element it is not less than.
BinarySearch(a, pivot, left, right) ==
  IF left >= right THEN left
  ELSE LET mid == left + ((right - left) \div 2)
       IN IF SortCompare(pivot, a[mid]) < 0
          THEN BinarySearch(a, pivot, left, mid)
          ELSE BinarySearch(a, pivot, mid + 1, right)

RECURSIVE BinaryInsertionSort(_, _)
BinaryInsertionSort(a, start) ==
  IF start > Len(a) THEN a
  ELSE LET pivot == a[start]
           pos == BinarySearch(a, pivot, 1, start)
       IN BinaryInsertionSort(
            SubSeq(a, 1, pos - 1) \o <<pivot>> \o SubSeq(a, pos, start - 1)
              \o SubSeq(a, start + 1, Len(a)),
            start + 1)

\* emails.sort(comparator) as the runtime sorts an array shorter than 32: the
\* leading run is found (and reversed if descending), the rest is inserted
\* into it by binary insertion.
ArraySort(a) ==
  IF Len(a) < 2 THEN a
  ELSE LET isDescending == SortCompare(a[2], a[1]) < 0
           runLength == CountRun(a, 3, 2, isDescending)
           run == IF isDescending THEN ReverseRange(a, runLength) ELSE a
       IN BinaryInsertionSort(run, runLength + 1)

EmailsInit ==
  /\ epc = "idle"
  /\ ticketSeen = "none"
  /\ evendor = "none"
  /\ emailIds = <<>>
  /\ idx = 0
  /\ emails = <<>>
  /\ eret = <<>>
  /\ ticketFetches = 0
  /\ fetchLog = <<>>
  /\ thrown = {}
  /\ rejected = {}

\* getTicketEmails(ticketId) up to its first await: the ticket fetch.
GetTicketEmailsCall ==
  /\ epc = "idle"
  /\ epc' = "awaitTicket"
  /\ ticketFetches' = 1
  /\ UNCHANGED <<ticketSeen, evendor, emailIds, idx, emails, eret, fetchLog, thrown, rejected>>
  /\ UNCHANGED notEmailVars

\* Mutant of TicketResponse: no optional chaining, so missing associations throw.
TicketResponseStrict(assoc) ==
  /\ epc = "awaitTicket"
  /\ ticketSeen' = IF assoc = None THEN "missing" ELSE "present"
  /\ evendor' = "ok"
  /\ emailIds' = IF assoc = None THEN <<>> ELSE assoc[1]
  /\ IF assoc = None
     THEN /\ epc' = "failed"
          /\ UNCHANGED <<idx, fetchLog, eret>>
     ELSE IF Len(emailIds') = 0
     THEN /\ epc' = "done"
          /\ eret' = <<>>
          /\ UNCHANGED <<idx, fetchLog>>
     ELSE /\ epc' = "awaitEmail"
          /\ idx' = 1
          /\ fetchLog' = <<emailIds'[1]>>
          /\ UNCHANGED eret
  /\ UNCHANGED <<emails, ticketFetches, thrown, rejected>>
  /\ UNCHANGED notEmailVars

\* A variant that starts every per-message fetch at once.
TicketResponseParallel(assoc) ==
  /\ epc = "awaitTicket"
  /\ ticketSeen' = IF assoc = None THEN "missing" ELSE "present"
  /\ evendor' = "ok"
  /\ emailIds' = IF assoc = None THEN <<>> ELSE assoc[1]
  /\ IF Len(emailIds') = 0
     THEN /\ epc' = "done"
          /\ eret' = <<>>
          /\ UNCHANGED <<idx, fetchLog>>
     ELSE /\ epc' = "awaitEmail"
          /\ idx' = 1
          /\ fetchLog' = emailIds'
          /\ UNCHANGED eret
  /\ UNCHANGED <<emails, ticketFetches, thrown, rejected>>
  /\ UNCHANGED notEmailVars

\* The ticket fetch resolves: emailIds, the early return, or the first
\* per-message fetch.
TicketResponse(assoc) ==
  /\ epc = "awaitTicket"
  /\ ticketSeen' = IF assoc = None THEN "missing" ELSE "present"
  /\ evendor' = "ok"
  /\ emailIds' = IF assoc = None THEN <<>> ELSE assoc[1]
  /\ IF Len(emailIds') = 0
     THEN /\ epc' = "done"
          /\ eret' = <<>>
          /\ UNCHANGED <<idx, fetchLog>>
     ELSE /\ epc' = "awaitEmail"
          /\ idx' = 1
          /\ fetchLog' = <<emailIds'[1]>>
          /\ UNCHANGED eret
  /\ UNCHANGED <<emails, ticketFetches, thrown, rejected>>
  /\ UNCHANGED notEmailVars

\* Mutant of TicketFailure: the rejection is caught and [] is returned.
TicketFailureCaught ==
  /\ epc = "awaitTicket"
  /\ epc' = "done"
  /\ evendor' = "rejected"
  /\ UNCHANGED <<ticketSeen, emailIds, idx, emails, eret, ticketFetches, fetchLog, thrown,
                  rejected>>
  /\ UNCHANGED notEmailVars

\* The ticket fetch rejects: nothing catches it, getTicketEmails rejects.
TicketFailure ==
  /\ epc = "awaitTicket"
  /\ epc' = "failed"
  /\ evendor' = "rejected"
  /\ UNCHANGED <<ticketSeen, emailIds, idx, emails, eret, ticketFetches, fetchLog, thrown,
                  rejected>>
  /\ UNCHANGED notEmailVars

\* The loop body after getEmailContent has returned `email` (None: null), and
\* what follows it: the next per-message fetch, or the sort and the return.
AfterEmail(email) ==
  /\ emails' = emails \o email
  /\ thrown' = IF email = None THEN thrown \cup {emailIds[idx]} ELSE thrown
  /\ IF idx < Len(emailIds)
     THEN /\ idx' = idx + 1
          /\ fetchLog' = Append(fetchLog, emailIds[idx + 1])
          /\ UNCHANGED <<epc, eret>>
     ELSE /\ epc' = "done"
          /\ eret' = ArraySort(emails')
          /\ UNCHANGED <<idx, fetchLog>>
  /\ UNCHANGED <<ticketSeen, evendor, emailIds, ticketFetches>>

\* The per-message fetch resolves with a record, at time `now`.
EmailResponse(rec, now) ==
  /\ epc = "awaitEmail"
  /\ AfterEmail(GetEmailContent(emailIds[idx], rec, now))
  /\ UNCHANGED rejected
  /\ UNCHANGED notEmailVars

\* Mutant of EmailFailure: the rejection is not caught and ends the call.
EmailFailureAbort ==
  /\ epc = "awaitEmail"
  /\ epc' = "failed"
  /\ thrown' = thrown \cup {emailIds[idx]}
  /\ rejected' = rejected \cup {emailIds[idx]}
  /\ UNCHANGED <<ticketSeen, evendor, emailIds, idx, emails, eret, ticketFetches, fetchLog>>
  /\ UNCHANGED notEmailVars

\* The per-message fetch rejects: the catch block of getEmailContent returns null.
EmailFailure ==
  /\ epc = "awaitEmail"
  /\ AfterEmail(None)
  /\ rejected' = rejected \cup {emailIds[idx]}
  /\ UNCHANGED notEmailVars

\* The caller takes the outcome.
EmailsReturn ==
  /\ epc \in {"done", "failed"}
  /\ epc' = "idle"
  /\ ticketSeen' = "none"
  /\ evendor' = "none"
  /\ emailIds' = <<>>
  /\ idx' = 0
  /\ emails' = <<>>
  /\ eret' = <<>>
  /\ ticketFetches' = 0
  /\ fetchLog' = <<>>
  /\ thrown' = {}
  /\ rejected' = {}
  /\ UNCHANGED notEmailVars

EmailsNext ==
  \/ GetTicketEmailsCall
  \/ \E assoc \in AssocChoices : TicketResponse(assoc)
  \/ TicketFailure
  \/ \E rec \in EmailRecords, now \in Times : EmailResponse(rec, now)
  \/ EmailFailure
  \/ EmailsReturn

----------------------------------------------------------------------------
(* getEmailContent on one fetched record *)

EmptyRecord ==
  [hs_email_html |-> None, hs_email_text |-> None, hs_email_date |-> Absent,
   hs_timestamp |-> Absent, hs_createdate |-> Absent, createdAt |-> Absent]

\* No record at hand.
MsgInit ==
  /\ mpc = "idle"
  /\ mrec = EmptyRecord
  /\ mnow = 0
  /\ mres = None

\* The per-message fetch has resolved with a record; the clock matters to the
\* records without a body only.
MsgFetched ==
  /\ mpc = "fetched"
  /\ \/ mrec \in AllEmailRecords /\ mnow \in Times
     \/ mrec \in BodyRecords /\ mnow = 0
  /\ mres = None

\* The rest of getEmailContent: body, timestamp, return.
NormalizeMessage ==
  /\ mpc = "fetched"
  /\ mres' = GetEmailContent(1, mrec, mnow)
  /\ mpc' = "done"
  /\ UNCHANGED <<mrec, mnow>>
  /\ UNCHANGED notMsgVars

----------------------------------------------------------------------------
(* getTicketDetails: one read-through fetch *)

TicketIdSet == {"t1", "t2"}

TICKET_DETAIL_PROPERTIES == TICKET_PROPERTIES \o <<"hs_ticket_category">>

\* basicApi.getById(ticketId, TICKET_DETAIL_PROPERTIES, undefined,
\*                  ['contacts', 'companies'], false)
DetailsRequest(ticketId) ==
  [ticketId |-> ticketId,
   properties |-> TICKET_DETAIL_PROPERTIES,
   propertiesWithHistory |-> None,
   associations |-> <<"contacts", "companies">>,
   archived |-> FALSE]

\* What the ticket API can answer a getById for ticketId with: the ticket's
\* properties, and its associations when it has any (undefined otherwise).
UpstreamDetails(ticketId) ==
  [id : {ticketId},
   properties : {"props1", "props2"},
   associations : {None, Some("contacts"), Some("companies")}]

\* The HubSpotTicket built from the upstream ticket.
MapDetails(ticket) ==
  [id |-> ticket.id, properties |-> ticket.properties,
   associations |-> ticket.associations]

DetailsInit ==
  /\ dpc = "idle"
  /\ drequest = None
  /\ dcalls = 0
  /\ dvendor = "none"
  /\ dret = None

\* getTicketDetails(ticketId) up to its await.
GetTicketDetailsCall(ticketId) ==
  /\ dpc = "idle"
  /\ drequest' = Some(DetailsRequest(ticketId))
  /\ dcalls' = 1
  /\ dvendor' = "none"
  /\ dret' = None
  /\ dpc' = "awaitTicket"
  /\ UNCHANGED notDetailVars

\* The request resolves with the ticket.
DetailsResponse(ticket) ==
  /\ dpc = "awaitTicket"
  /\ ticket \in UpstreamDetails(drequest[1].ticketId)
  /\ dret' = Some(MapDetails(ticket))
  /\ dvendor' = "ok"
  /\ dpc' = "returned"
  /\ UNCHANGED <<drequest, dcalls>>
  /\ UNCHANGED notDetailVars

\* A variant that turns a rejection into an empty sentinel.
DetailsFailureCaught ==
  /\ dpc = "awaitTicket"
  /\ dret' = Some([id |-> drequest[1].ticketId, properties |-> "none",
                   associations |-> None])
  /\ dvendor' = "rejected"
  /\ dpc' = "returned"
  /\ UNCHANGED <<drequest, dcalls>>
  /\ UNCHANGED notDetailVars

\* The request rejects: nothing catches it, getTicketDetails rejects.
DetailsFailure ==
  /\ dpc = "awaitTicket"
  /\ dvendor' = "rejected"
  /\ dpc' = "thrown"
  /\ UNCHANGED <<drequest, dcalls, dret>>
  /\ UNCHANGED notDetailVars

\* The caller takes the outcome.
DetailsReturn ==
  /\ dpc \in {"returned", "thrown"}
  /\ dpc' = "idle"
  /\ drequest' = None
  /\ dcalls' = 0
  /\ dvendor' = "none"
  /\ dret' = None
  /\ UNCHANGED notDetailVars

DetailsNext ==
  \/ \E ticketId \in TicketIdSet : GetTicketDetailsCall(ticketId)
  \/ \E ticketId \in TicketIdSet : \E ticket \in UpstreamDetails(ticketId) :
       DetailsResponse(ticket)
  \/ DetailsFailure
  \/ DetailsReturn

----------------------------------------------------------------------------
(* addNoteToTicket: the record mutator *)

NoteBodies == {"", "note a", "note b"}

NoteToTicketAssociation == 16

\* notes.basicApi.create({properties: {hs_timestamp: Date.now().toString(),
\* hs_note_body}, associations: [{to: {id}, types: [{HUBSPOT_DEFINED, 16}]}]})
CreateNoteRequest(ticketId, noteBody, now) ==
  [properties |-> [hs_timestamp |-> [k |-> "ms", t |-> now],
                   hs_note_body |-> noteBody],
   associations |->
     <<[to |-> [id |-> ticketId],
        types |-> <<[associationCategory |-> "HUBSPOT_DEFINED",
                     associationTypeId |-> NoteToTicketAssociation]>>]>>]

NotesInit ==
  /\ npc = "idle"
  /\ nargs = None
  /\ nrequest = None
  /\ ncalls = 0
  /\ nvendor = "none"
  /\ nret = None

\* addNoteToTicket(ticketId, noteBody) up to its await, at clock reading now.
AddNoteToTicketCall(ticketId, noteBody, now) ==
  /\ npc = "idle"
  /\ nargs' = Some([ticketId |-> ticketId, noteBody |-> noteBody])
  /\ nrequest' = Some(CreateNoteRequest(ticketId, noteBody, now))
  /\ ncalls' = 1
  /\ nvendor' = "none"
  /\ nret' = None
  /\ npc' = "awaitCreate"
  /\ UNCHANGED notNoteVars

\* The create call resolves: return true.
CreateResponse ==
  /\ npc = "awaitCreate"
  /\ nvendor' = "ok"
  /\ nret' = Some(TRUE)
  /\ nrequest' = None
  /\ npc' = "returned"
  /\ UNCHANGED <<nargs, ncalls>>
  /\ UNCHANGED notNoteVars

\* A variant without the catch: the rejection escapes.
CreateFailureRethrow ==
  /\ npc = "awaitCreate"
  /\ nvendor' = "rejected"
  /\ nrequest' = None
  /\ npc' = "thrown"
  /\ UNCHANGED <<nargs, ncalls, nret>>
  /\ UNCHANGED notNoteVars

\* The create call rejects: the catch returns false.
CreateFailure ==
  /\ npc = "awaitCreate"
  /\ nvendor' = "rejected"
  /\ nret' = Some(FALSE)
  /\ nrequest' = None
  /\ npc' = "returned"
  /\ UNCHANGED <<nargs, ncalls>>
  /\ UNCHANGED notNoteVars

\* The caller takes the outcome.
NotesReturn ==
  /\ npc \in {"returned", "thrown"}
  /\ npc' = "idle"
  /\ nargs' = None
  /\ ncalls' = 0
  /\ nvendor' = "none"
  /\ nret' = None
  /\ UNCHANGED nrequest
  /\ UNCHANGED notNoteVars

NotesNext ==
  \/ \E ticketId \in TicketIdSet, noteBody \in NoteBodies, now \in Times :
       AddNoteToTicketCall(ticketId, noteBody, now)
  \/ CreateResponse
  \/ CreateFailure
  \/ NotesReturn

----------------------------------------------------------------------------
(* AzureApi.listAppInsights *)

\* The value array of the subscriptions response: missing (None) or a list.
SubscriptionLists == {None, Some(<<>>), Some(<<"sub1">>), Some(<<"sub1", "sub2">>)}

\* Resources as resources.list can yield them: name, id and location are
\* optional; an id names its resource group or does not.
ResourcePool ==
  { [name |-> Some("ai1"), id |-> Some([rg |-> Some("rg1")]), location |-> Some("eu")],
    [name |-> Some("ai2"), id |-> Some([rg |-> None]), location |-> Some("us")],
    [name |-> Some("ai3"), id |-> Some([rg |-> Some("rg1")]), location |-> None] }

ResourceLists == SeqsUpTo(ResourcePool, MaxPage)

\* The loop body: a resource with name, id and location is pushed, with the
\* resource group cut out of its id ('unknown' when the id names none).
RECURSIVE MapResources(_)
MapResources(list) ==
  IF list = <<>> THEN <<>>
  ELSE LET resource == Head(list)
       IN (IF resource.name # None /\ resource.id # None /\ resource.location # None
           THEN <<[name |-> resource.name[1],
                   id |-> resource.id[1],
                   resourceGroup |-> IF resource.id[1].rg # None
                                       THEN resource.id[1].rg[1] ELSE "unknown",
                   location |-> resource.location[1]]>>
           ELSE <<>>) \o MapResources(Tail(list))

AzureInit ==
  /\ apc = "idle"
  /\ subscriptionId = None
  /\ avendor = "none"
  /\ aret = <<>>

\* listAppInsights up to its first await: the subscription lookup, or the
\* resource listing when the subscription id is known.
ListAppInsightsCall ==
  /\ apc = "idle"
  /\ apc' = IF subscriptionId = None THEN "awaitSubscription" ELSE "awaitResources"
  /\ avendor' = "none"
  /\ aret' = <<>>
  /\ UNCHANGED subscriptionId
  /\ UNCHANGED notAzureVars

\* The subscriptions request resolves: the first id is kept, or 'No
\* subscriptions found' is thrown and caught.
SubscriptionResponse(value) ==
  /\ apc = "awaitSubscription"
  /\ IF value = None \/ value[1] = <<>>
     THEN /\ apc' = "returned"
          /\ aret' = <<>>
          /\ UNCHANGED subscriptionId
     ELSE /\ apc' = "awaitResources"
          /\ subscriptionId' = Some(value[1][1])
          /\ UNCHANGED aret
  /\ UNCHANGED avendor
  /\ UNCHANGED notAzureVars

\* The token request, the subscriptions request or the resource listing
\* rejects (or answers with an error status): the catch returns [].
AzureFailure ==
  /\ apc \in {"awaitSubscription", "awaitResources"}
  /\ apc' = "returned"
  /\ avendor' = "rejected"
  /\ aret' = <<>>
  /\ UNCHANGED subscriptionId
  /\ UNCHANGED notAzureVars

\* The resource listing runs to its end.
ResourcesResponse(list) ==
  /\ apc = "awaitResources"
  /\ apc' = "returned"
  /\ avendor' = "ok"
  /\ aret' = MapResources(list)
  /\ UNCHANGED subscriptionId
  /\ UNCHANGED notAzureVars

\* The caller takes the outcome.
AzureReturn ==
  /\ apc \in {"returned", "thrown"}
  /\ apc' = "idle"
  /\ avendor' = "none"
  /\ aret' = <<>>
  /\ UNCHANGED subscriptionId
  /\ UNCHANGED notAzureVars

----------------------------------------------------------------------------
(* The MCP tool handlers *)

ToolNames ==
  {"list_owners", "find_owners_by_name", "list_tickets", "get_ticket_details",
   "get_ticket_emails", "add_note", "list_app_insights"}

\* The default of the limit argument.
DefaultLimit == 100

\* args.limit as the schema lets it through: any number. A number is held as
\* twice its value, so that halves have a representation: the values here are
\* -1, 0, 1, 1.5 and the default.
LimitArgs == {0 - 2, 0, 2, 3, 2 * DefaultLimit}

\* ToIntegerOrInfinity of the number held as h: truncation towards zero.
Truncate(h) == IF h >= 0 THEN h \div 2 ELSE 0 - ((0 - h) \div 2)

\* list.slice(0, end), end held as h: a negative end counts from the back.
Slice(list, h) ==
  LET relEnd == Truncate(h)
      final == IF relEnd < 0
                 THEN (IF Len(list) + relEnd > 0 THEN Len(list) + relEnd ELSE 0)
                 ELSE (IF relEnd < Len(list) THEN relEnd ELSE Len(list))
  IN SubSeq(list, 1, final)

ToolsInit ==
  /\ tool = "none"
  /\ toolArgs = None
  /\ toolResult = None

\* The operation the handler of `name` awaits has settled.
ApiSettled(name) ==
  CASE name \in {"list_owners", "find_owners_by_name"} -> pc[1] = "returned"
    [] name = "list_tickets" -> tpc \in {"returned", "thrown"}
    [] name = "get_ticket_details" -> dpc \in {"returned", "thrown"}
    [] name = "get_ticket_emails" -> epc \in {"done", "failed"}
    [] name = "add_note" -> npc \in {"returned", "thrown"}
    [] name = "list_app_insights" -> apc \in {"returned", "thrown"}
    [] OTHER -> FALSE

\* The operation the handler of `name` awaits has rejected.
ApiThrew(name) ==
  CASE name = "list_tickets" -> tpc = "thrown"
    [] name = "get_ticket_details" -> dpc = "thrown"
    [] name = "get_ticket_emails" -> epc = "failed"
    [] name = "add_note" -> npc = "thrown"
    [] name = "list_app_insights" -> apc = "thrown"
    [] OTHER -> FALSE

\* The result a handler builds in its try block from the value it awaited:
\* JSON or a fixed message, and isError only where the handler sets it.
TryResult(name) ==
  CASE name = "list_owners" -> [content |-> "json", isError |-> FALSE]
    [] name = "find_owners_by_name" ->
         [content |-> IF Len(ret[1]) = 0 THEN "message" ELSE "json", isError |-> FALSE]
    [] name = "list_tickets" ->
         [content |-> "json", isError |-> FALSE, value |-> Slice(tret, toolArgs[1].limit)]
    [] name = "get_ticket_details" -> [content |-> "json", isError |-> FALSE]
    [] name = "get_ticket_emails" ->
         [content |-> IF Len(eret) = 0 THEN "message" ELSE "json", isError |-> FALSE]
    [] name = "add_note" -> [content |-> "message", isError |-> ~nret[1]]
    [] name = "list_app_insights" ->
         [content |-> IF Len(aret) = 0 THEN "message" ELSE "json", isError |-> FALSE]

\* The result of the handler's catch block.
CatchResult == [content |-> "error", isError |-> TRUE]

\* What the handler of `name` returns: the try block's result, or the catch
\* block's when the awaited operation rejected.
HandlerResult(name) ==
  IF ApiThrew(name) THEN CatchResult ELSE TryResult(name)

\* A tool request arrives: the handler of `name` starts.
ToolCall(name, args) ==
  /\ tool = "none"
  /\ tool' = name
  /\ toolArgs' = args
  /\ toolResult' = None
  /\ UNCHANGED notToolVars

\* The handler is about to call its operation.
Calling(name) == tool = name /\ toolResult = None

\* The awaited operation has settled: the handler builds its result.
ToolFinish ==
  /\ tool # "none"
  /\ toolResult = None
  /\ ApiSettled(tool)
  /\ toolResult' = Some(HandlerResult(tool))
  /\ UNCHANGED <<tool, toolArgs>>
  /\ UNCHANGED notToolVars

\* The result goes back to the client.
ToolReturn ==
  /\ tool # "none"
  /\ toolResult # None
  /\ tool' = "none"
  /\ toolArgs' = None
  /\ toolResult' = None
  /\ UNCHANGED notToolVars

----------------------------------------------------------------------------
(* FirebaseApi: getFirestoreDoc and getStorageFile *)

DocIds == {"d1", "d2"}
FilePaths == {"f1", "f2"}

\* The snapshot docRef.get() resolves with: of an existing document its data
\* and times, of a missing one only the id.
DocSnapshots(docId, exists) ==
  IF exists
    THEN [exists : {TRUE}, id : {docId}, data : {Some("data1"), Some("data2")},
          createTime : {Some(0)}, updateTime : {Some(t) : t \in Times}]
    ELSE [exists : {FALSE}, id : {docId}, data : {None},
          createTime : {None}, updateTime : {None}]

\* doc.createTime?.toDate().toISOString(): undefined (None) when it is missing.
OptionalIso(time) == IF time = None THEN None ELSE Some([k |-> "iso", t |-> time[1]])

\* The value getFirestoreDoc returns for an existing document.
MapDoc(doc) ==
  [id |-> doc.id, data |-> doc.data[1],
   createTime |-> OptionalIso(doc.createTime),
   updateTime |-> OptionalIso(doc.updateTime)]

\* No method under way.
FirebaseIdle ==
  /\ fpc = "idle"
  /\ fop = "none"
  /\ fargs = None
  /\ flog = <<>>
  /\ fanswer = "none"
  /\ ferror = "none"
  /\ fret = None

FirebaseInit ==
  /\ FirebaseIdle
  /\ docs = {}
  /\ files = {}

\* getFirestoreDoc(collection, docId) up to its await.
GetFirestoreDocCall(docId) ==
  /\ fpc = "idle"
  /\ fop' = "doc"
  /\ fargs' = Some(docId)
  /\ flog' = <<"get">>
  /\ fpc' = "awaitGet"
  /\ UNCHANGED <<fanswer, ferror, fret, docs, files>>
  /\ UNCHANGED notFirebaseVars

\* A variant that answers a missing document with null.
DocGetResponseNull(doc) ==
  /\ fpc = "awaitGet"
  /\ doc \in DocSnapshots(fargs[1], fargs[1] \in docs)
  /\ fanswer' = IF doc.exists THEN "found" ELSE "missing"
  /\ fpc' = "returned"
  /\ fret' = IF doc.exists THEN Some(MapDoc(doc)) ELSE Some("null")
  /\ UNCHANGED <<fop, fargs, flog, ferror, docs, files>>
  /\ UNCHANGED notFirebaseVars

\* The snapshot arrives: a missing document throws the not-found error, an
\* existing one is returned.
DocGetResponse(doc) ==
  /\ fpc = "awaitGet"
  /\ doc \in DocSnapshots(fargs[1], fargs[1] \in docs)
  /\ fanswer' = IF doc.exists THEN "found" ELSE "missing"
  /\ IF ~doc.exists
     THEN /\ fpc' = "thrown"
          /\ ferror' = "notFound"
          /\ UNCHANGED fret
     ELSE /\ fpc' = "returned"
          /\ fret' = Some(MapDoc(doc))
          /\ UNCHANGED ferror
  /\ UNCHANGED <<fop, fargs, flog, docs, files>>
  /\ UNCHANGED notFirebaseVars

\* getStorageFile(bucket, filePath) up to its first await: file.exists().
GetStorageFileCall(filePath) ==
  /\ fpc = "idle"
  /\ fop' = "file"
  /\ fargs' = Some(filePath)
  /\ flog' = <<"exists">>
  /\ fpc' = "awaitExists"
  /\ UNCHANGED <<fanswer, ferror, fret, docs, files>>
  /\ UNCHANGED notFirebaseVars

\* The existence check answers: a missing file throws the not-found error,
\* for an existing one the download is issued.
ExistsResponse ==
  /\ fpc = "awaitExists"
  /\ fanswer' = IF fargs[1] \in files THEN "found" ELSE "missing"
  /\ IF fargs[1] \notin files
     THEN /\ fpc' = "thrown"
          /\ ferror' = "notFound"
          /\ UNCHANGED flog
     ELSE /\ fpc' = "awaitDownload"
          /\ flog' = Append(flog, "download")
          /\ UNCHANGED ferror
  /\ UNCHANGED <<fop, fargs, fret, docs, files>>
  /\ UNCHANGED notFirebaseVars

\* The download resolves (the file is still there): getMetadata is issued.
DownloadResponse ==
  /\ fpc = "awaitDownload"
  /\ fargs[1] \in files
  /\ fpc' = "awaitMetadata"
  /\ flog' = Append(flog, "getMetadata")
  /\ UNCHANGED <<fop, fargs, fanswer, ferror, fret, docs, files>>
  /\ UNCHANGED notFirebaseVars

\* The metadata arrives: content and metadata are returned.
MetadataResponse ==
  /\ fpc = "awaitMetadata"
  /\ fargs[1] \in files
  /\ fpc' = "returned"
  /\ fret' = Some([content |-> <<"content", fargs[1]>>, metadata |-> <<"metadata", fargs[1]>>])
  /\ UNCHANGED <<fop, fargs, flog, fanswer, ferror, docs, files>>
  /\ UNCHANGED notFirebaseVars

\* An awaited request rejects: nothing catches it, the method rejects.
FirebaseFailure ==
  /\ fpc \in {"awaitGet", "awaitExists", "awaitDownload", "awaitMetadata"}
  /\ fpc' = "thrown"
  /\ ferror' = "upstream"
  /\ UNCHANGED <<fop, fargs, flog, fanswer, fret, docs, files>>
  /\ UNCHANGED notFirebaseVars

\* The caller takes the outcome.
FirebaseReturn ==
  /\ fpc \in {"returned", "thrown"}
  /\ fpc' = "idle"
  /\ fop' = "none"
  /\ fargs' = None
  /\ flog' = <<>>
  /\ fanswer' = "none"
  /\ ferror' = "none"
  /\ fret' = None
  /\ UNCHANGED <<docs, files>>
  /\ UNCHANGED notFirebaseVars

\* Someone else creates or deletes a document or a file.
StoreChange(d, f) ==
  /\ docs' = d
  /\ files' = f
  /\ UNCHANGED <<fpc, fop, fargs, flog, fanswer, ferror, fret>>
  /\ UNCHANGED notFirebaseVars

----------------------------------------------------------------------------
(* Specifications: each runs one component and leaves the others alone *)

\* Every component but the owner directory at rest.
OthersInit ==
  /\ TicketsInit /\ EmailsInit /\ DetailsInit /\ NotesInit /\ MsgInit /\ AzureInit
  /\ ToolsInit /\ FirebaseInit

\* Concurrent listOwners invocations, each suspending at its upstream fetch.
OwnersConcInit ==
  OwnersInit /\ directory \in DirectoryVersions /\ OthersInit

OwnersConcNext ==
  \/ \E c \in 1..MaxCalls : ListOwnersCall(c)
  \/ \E c \in 1..MaxCalls : OwnersResponse(c)
  \/ \E c \in 1..MaxCalls : OwnersFailure(c)
  \/ \E c \in 1..MaxCalls : OwnersReturn(c)
  \/ \E d \in DirectoryVersions : DirectoryChange(d)

\* One caller issuing listOwners and findOwnersByName calls one after another.
OwnersSeqInit ==
  OwnersInit /\ directory \in Directories /\ OthersInit

OwnersSeqNext ==
  \/ ListOwnersCall(1)
  \/ \E t \in SearchTerms : FindOwnersCall(1, t)
  \/ OwnersResponse(1)
  \/ OwnersFailure(1)
  \/ OwnersReturn(1)
  \/ \E o \in RawOwnerPool :
       Len(directory) < MaxOwners /\ DirectoryChange(Append(directory, o))
  \/ directory # <<>> /\ DirectoryChange(Tail(directory))

TicketsSpecInit ==
  OwnersInit /\ directory = <<>> /\ OthersInit

EmailsSpecInit ==
  OwnersInit /\ directory = <<>> /\ OthersInit

\* The records the per-message fetch resolves with where the content of the
\* messages is beside the point: no source, an unparseable one, a good one.
PlainEmailRecords ==
  {EmptyRecord,
   [EmptyRecord EXCEPT !.hs_email_date = Garbage],
   [EmptyRecord EXCEPT !.hs_email_date = [k |-> "ms", t |-> 0]]}

\* One caller invoking the core operations one after another: an operation is
\* entered only when no other one is under way.
CoreInit ==
  OwnersInit /\ directory \in DirectoryVersions /\ OthersInit

AllIdle ==
  /\ pc[1] = "idle"
  /\ tpc = "idle"
  /\ epc = "idle"
  /\ dpc = "idle"
  /\ npc = "idle"
  /\ apc = "idle"

CoreNext ==
  \/ AllIdle /\ ListOwnersCall(1)
  \/ AllIdle /\ \E t \in SearchTerms : FindOwnersCall(1, t)
  \/ OwnersResponse(1)
  \/ OwnersFailure(1)
  \/ OwnersReturn(1)
  \/ AllIdle /\ \E filters \in FilterArgs : ListTicketsCall(filters)
  \/ \E results \in UpstreamPages : TicketsResponse(results)
  \/ TicketsFailure
  \/ TicketsReturn
  \/ AllIdle /\ GetTicketEmailsCall
  \/ \E assoc \in AssocChoices : TicketResponse(assoc)
  \/ TicketFailure
  \/ \E rec \in PlainEmailRecords : EmailResponse(rec, 0)
  \/ EmailFailure
  \/ EmailsReturn
  \/ AllIdle /\ \E ticketId \in TicketIdSet : GetTicketDetailsCall(ticketId)
  \/ \E ticketId \in TicketIdSet : \E ticket \in UpstreamDetails(ticketId) :
       DetailsResponse(ticket)
  \/ DetailsFailure
  \/ DetailsReturn
  \/ AllIdle /\ \E ticketId \in TicketIdSet, noteBody \in NoteBodies, now \in Times :
       AddNoteToTicketCall(ticketId, noteBody, now)
  \/ CreateResponse
  \/ CreateFailure
  \/ NotesReturn

\* getEmailContent applied to each record the per-message fetch can resolve with.
MessageInit ==
  /\ OwnersInit /\ directory = <<>>
  /\ TicketsInit /\ EmailsInit /\ DetailsInit /\ NotesInit /\ AzureInit /\ ToolsInit
  /\ FirebaseInit
  /\ MsgFetched

MessageNext == NormalizeMessage

\* The tool servers handling one tool request at a time: the handler calls
\* its operation, the operation runs to its end, the handler builds the
\* result from what it awaited.
ToolsSpecInit ==
  OwnersInit /\ directory \in DirectoryVersions /\ OthersInit

ToolsNext ==
  \/ \E name \in ToolNames \ {"list_tickets"} : AllIdle /\ ToolCall(name, None)
  \/ \E limit \in LimitArgs : AllIdle /\ ToolCall("list_tickets", Some([limit |-> limit]))
  \/ Calling("list_owners") /\ ListOwnersCall(1)
  \/ Calling("find_owners_by_name") /\ \E t \in SearchTerms : FindOwnersCall(1, t)
  \/ OwnersResponse(1)
  \/ OwnersFailure(1)
  \/ toolResult # None /\ OwnersReturn(1)
  \/ Calling("list_tickets") /\ \E filters \in FilterArgs \ {None} : ListTicketsCall(filters)
  \/ \E results \in UpstreamPages : TicketsResponse(results)
  \/ TicketsFailure
  \/ toolResult # None /\ TicketsReturn
  \/ Calling("get_ticket_emails") /\ GetTicketEmailsCall
  \/ \E assoc \in AssocChoices : TicketResponse(assoc)
  \/ TicketFailure
  \/ \E rec \in PlainEmailRecords : EmailResponse(rec, 0)
  \/ EmailFailure
  \/ toolResult # None /\ EmailsReturn
  \/ Calling("get_ticket_details") /\ \E ticketId \in TicketIdSet : GetTicketDetailsCall(ticketId)
  \/ \E ticketId \in TicketIdSet : \E ticket \in UpstreamDetails(ticketId) :
       DetailsResponse(ticket)
  \/ DetailsFailure
  \/ toolResult # None /\ DetailsReturn
  \/ Calling("add_note") /\ \E ticketId \in TicketIdSet, noteBody \in NoteBodies, now \in Times :
       AddNoteToTicketCall(ticketId, noteBody, now)
  \/ CreateResponse
  \/ CreateFailure
  \/ toolResult # None /\ NotesReturn
  \/ Calling("list_app_insights") /\ ListAppInsightsCall
  \/ \E value \in SubscriptionLists : SubscriptionResponse(value)
  \/ \E list \in ResourceLists : ResourcesResponse(list)
  \/ AzureFailure
  \/ toolResult # None /\ AzureReturn
  \/ ToolFinish
  \/ AllIdle /\ ToolReturn

\* One caller of getFirestoreDoc and getStorageFile, over a store that others
\* change meanwhile.
FirebaseSpecInit ==
  /\ OwnersInit /\ directory = <<>>
  /\ TicketsInit /\ EmailsInit /\ DetailsInit /\ NotesInit /\ MsgInit /\ AzureInit
  /\ ToolsInit
  /\ FirebaseIdle /\ docs \in SUBSET DocIds /\ files \in SUBSET FilePaths

FirebaseNext ==
  \/ \E docId \in DocIds : GetFirestoreDocCall(docId)
  \/ \E docId \in DocIds, exists \in BOOLEAN : \E doc \in DocSnapshots(docId, exists) :
       DocGetResponse(doc)
  \/ \E filePath \in FilePaths : GetStorageFileCall(filePath)
  \/ ExistsResponse
  \/ DownloadResponse
  \/ MetadataResponse
  \/ FirebaseFailure
  \/ FirebaseReturn
  \/ \E d \in SUBSET DocIds, f \in SUBSET FilePaths : StoreChange(d, f)

OwnersConcSpec == OwnersConcInit /\ [][OwnersConcNext]_vars
\* The longest conversation of ThreadSpec.
MaxThread == 7

\* Tickets whose linked ids are 1..n, in that order.
ThreadChoices == {Some([i \in 1..n |-> i]) : n \in 0..MaxThread}

\* Messages with no hs_* timestamp property: the record-level createdAt is
\* the stored timestamp, an ISO string or a string that is no date.
ThreadRecords ==
  {[EmptyRecord EXCEPT !.createdAt = v] :
     v \in {Garbage} \cup {[k |-> "iso", t |-> t] : t \in Times}}

\* getTicketEmails on long conversations.
ThreadInit ==
  OwnersInit /\ directory = <<>> /\ OthersInit

ThreadNext ==
  \/ GetTicketEmailsCall
  \/ \E assoc \in ThreadChoices : TicketResponse(assoc)
  \/ TicketFailure
  \/ \E rec \in ThreadRecords : EmailResponse(rec, 0)
  \/ EmailFailure
  \/ EmailsReturn

ThreadSpec == ThreadInit /\ [][ThreadNext]_vars
OwnersSeqSpec == OwnersSeqInit /\ [][OwnersSeqNext]_vars
TicketsSpec == TicketsSpecInit /\ [][TicketsNext]_vars
EmailsSpec == EmailsSpecInit /\ [][EmailsNext]_vars
CoreSpec == CoreInit /\ [][CoreNext]_vars
MessageSpec == MessageInit /\ [][MessageNext]_vars
ToolsSpec == ToolsSpecInit /\ [][ToolsNext]_vars
FirebaseSpec == FirebaseSpecInit /\ [][FirebaseNext]_vars

----------------------------------------------------------------------------
(* Properties of the Directory Cache *)

\* C1 (OwnersSeqSpec): a listOwners call whose upstream fetch fails returns
\* the empty sequence and leaves the cache unpopulated, and the call that
\* follows a failed call issues a new upstream fetch.
C1_FailureNotCached ==
  /\ (pc[1] = "returned" /\ outcome[1] = "failed") =>
       (owners[1] = <<>> /\ ownerCache = None /\ fetched[1] = 1)
  /\ (prev = "failed" /\ pc[1] # "idle") => fetched[1] = 1

C1_Witness ==
  /\ prev = "failed"
  /\ kind[1] = "list"
  /\ pc[1] = "awaitOwners"
  /\ fetched[1] = 1
  /\ ownerCache = None

\* C2 (OwnersSeqSpec): once a listOwners call has completed successfully, the
\* cache keeps the sequence that call stored, and every later call returns
\* that same sequence at once, having issued no upstream fetch, whatever the
\* upstream directory holds by then.
C2_CachedAfterSuccess ==
  /\ firstSuccess # None => ownerCache = firstSuccess
  /\ (succeeded /\ pc[1] # "idle") =>
       /\ pc[1] = "returned"
       /\ fetched[1] = 0
       /\ owners[1] = firstSuccess[1]

C2_Witness ==
  /\ succeeded
  /\ prev = "hit"
  /\ pc[1] = "returned"
  /\ kind[1] = "list"
  /\ fetched[1] = 0
  /\ ret[1] = firstSuccess[1]
  /\ MapOwners(directory) # ret[1]

\* C3 (OwnersConcSpec): the owner cache is write-once under every
\* interleaving of concurrent listOwners calls: once it holds a value, it
\* holds the value first written for ever.
C3_WriteOnce == firstSuccess # None => ownerCache = firstSuccess

\* The lower-cased term occurs in the lower-cased string s at some position.
IsSubstringIgnoreCase(t, s) ==
  \E start \in 1..(Len(s) + 1) :
    \A k \in 1..Len(t) :
      /\ start + k - 1 <= Len(s)
      /\ toLowerCase(s)[start + k - 1] = toLowerCase(t)[k]

\* The positions of the owners of `list` that the term matches in some field.
MatchingPositions(list, t) ==
  {i \in 1..Len(list) :
     \E f \in {"fullName", "firstName", "lastName", "email"} :
       IsSubstringIgnoreCase(t, list[i][f])}

\* C10 (OwnersSeqSpec): findOwnersByName(term) returns, in the order of the
\* owner list it got from listOwners, exactly the {id, email, fullName}
\* projections of the owners that have the lower-cased term as a substring of
\* the lower-cased full name, first name, last name or email; with no such
\* owner it returns the empty sequence.
C10_FindOwnersByName ==
  (pc[1] = "returned" /\ kind[1] = "find") =>
    LET M == MatchingPositions(owners[1], term[1])
        Rank(i) == Cardinality({j \in M : j <= i})
    IN /\ Len(ret[1]) = Cardinality(M)
       /\ \A i \in M :
            ret[1][Rank(i)] = [id |-> owners[1][i].id, email |-> owners[1][i].email,
                               fullName |-> owners[1][i].fullName]
       /\ (M = {} => ret[1] = <<>>)

C10_Witness ==
  /\ pc[1] = "returned"
  /\ kind[1] = "find"
  /\ term[1] = <<"Y", " ">>
  /\ Len(owners[1]) = 2
  /\ Len(ret[1]) = 1
  /\ ret[1][1].id = "1"
  /\ owners[1][2].id = "1"

----------------------------------------------------------------------------
(* Properties of the Filter Translator *)

ArrayFields == {"groups", "statuses", "priorities", "owners"}

PropertyOf(f) ==
  CASE f = "groups" -> "group"
    [] f = "statuses" -> "hs_pipeline_stage"
    [] f = "priorities" -> "hs_ticket_priority"
    [] f = "owners" -> "hubspot_owner_id"

\* The criteria argument supplies a non-empty array for field f.
Supplied(filters, f) ==
  filters # None /\ filters[1][f] # None /\ filters[1][f][1] # <<>>

\* The criteria argument supplies a non-empty free-text term.
TextSupplied(filters) ==
  filters # None /\ filters[1].searchText # None /\ filters[1].searchText[1] # ""

\* C7 (TicketsSpec): with every criterion empty or absent (or no criteria
\* argument), listTickets builds no clause and issues the plain listing call.
C7_EmptyCriteriaListPath ==
  (/\ tpc = "awaitTickets"
   /\ \A f \in ArrayFields : ~Supplied(tfilters, f)
   /\ ~TextSupplied(tfilters)) =>
    /\ filterGroups = <<>>
    /\ tcalls = 1
    /\ trequest # None
    /\ trequest[1].api = "getPage"
    /\ tpath = "list"

C7_Witness ==
  /\ tpc = "awaitTickets"
  /\ tfilters # None
  /\ tfilters[1].groups = Some(<<>>)
  /\ tfilters[1].owners = None
  /\ tfilters[1].statuses = Some(<<>>)
  /\ tfilters[1].priorities = None
  /\ tfilters[1].searchText = Some("")
  /\ trequest[1].api = "getPage"

\* The positions of the clauses on property p in the clause list.
ClausesOn(p) == {i \in 1..Len(filterGroups) : filterGroups[i].propertyName = p}

\* C8 (TicketsSpec): the clause list holds exactly one IN clause, with the
\* supplied values, for each non-empty array criterion, on that criterion's
\* property, and one CONTAINS_TOKEN clause on subject iff a free-text term
\* is supplied, and nothing else; a non-empty clause list goes out as one
\* search whose single filter group holds all the clauses, with limit 100.
C8_ClauseList ==
  tpc = "awaitTickets" =>
    /\ \A f \in ArrayFields :
         IF Supplied(tfilters, f)
         THEN /\ Cardinality(ClausesOn(PropertyOf(f))) = 1
              /\ \A i \in ClausesOn(PropertyOf(f)) :
                   /\ filterGroups[i].operator = "IN"
                   /\ filterGroups[i].values = tfilters[1][f][1]
         ELSE ClausesOn(PropertyOf(f)) = {}
    /\ IF TextSupplied(tfilters)
       THEN /\ Cardinality(ClausesOn("subject")) = 1
            /\ \A i \in ClausesOn("subject") :
                 /\ filterGroups[i].operator = "CONTAINS_TOKEN"
                 /\ filterGroups[i].value = tfilters[1].searchText[1]
       ELSE ClausesOn("subject") = {}
    /\ Len(filterGroups) =
         Cardinality({f \in ArrayFields : Supplied(tfilters, f)})
           + (IF TextSupplied(tfilters) THEN 1 ELSE 0)
    /\ filterGroups # <<>> =>
         /\ tcalls = 1
         /\ trequest # None
         /\ trequest[1].api = "doSearch"
         /\ trequest[1].filterGroups = <<[filters |-> filterGroups]>>
         /\ trequest[1].limit = 100

C8_Witness ==
  /\ tpc = "awaitTickets"
  /\ tfilters # None
  /\ tfilters[1].groups = None
  /\ tfilters[1].statuses = Some(<<>>)
  /\ tfilters[1].priorities = None
  /\ Supplied(tfilters, "owners")
  /\ Len(tfilters[1].owners[1]) = 2
  /\ tfilters[1].searchText = Some("x")
  /\ Len(filterGroups) = 2
  /\ filterGroups[1].propertyName = "hubspot_owner_id"
  /\ filterGroups[1].values = tfilters[1].owners[1]

\* C9 (TicketsSpec): an empty array for a criterion gives the same clause
\* list and the same upstream request as the same criteria with that
\* criterion absent.
C9_EmptyArrayAsAbsent ==
  tpc = "awaitTickets" =>
    \A f \in ArrayFields :
      (tfilters # None /\ tfilters[1][f] = Some(<<>>)) =>
        LET without == Some([tfilters[1] EXCEPT ![f] = None])
        IN /\ filterGroups = BuildFilterGroups(without)
           /\ trequest = Some(UpstreamRequest(BuildFilterGroups(without)))

C9_Witness ==
  /\ tpc = "awaitTickets"
  /\ tfilters # None
  /\ tfilters[1].groups = Some(<<>>)
  /\ Supplied(tfilters, "priorities")
  /\ trequest[1].api = "doSearch"
  /\ Len(filterGroups) = 1

----------------------------------------------------------------------------
(* Properties of the Conversation Assembler *)

\* The ids of the messages of a sequence.
IdsOf(msgs) == {msgs[i].id : i \in 1..Len(msgs)}

\* C4 (EmailsSpec): per-message failures never fail getTicketEmails, and the
\* result holds exactly one message for each linked id whose fetch and
\* normalization did not throw, and none for the others.
C4_PartialResult ==
  /\ epc = "failed" => fetchLog = <<>>
  /\ (epc = "done" /\ emailIds # <<>>) =>
       /\ thrown \subseteq {emailIds[i] : i \in 1..Len(emailIds)}
       /\ Len(eret) = Len(emailIds) - Cardinality(thrown)
       /\ \A i \in 1..Len(emailIds) :
            Cardinality({j \in 1..Len(eret) : eret[j].id = emailIds[i]})
              = (IF emailIds[i] \in thrown THEN 0 ELSE 1)

C4_Witness ==
  /\ epc = "done"
  /\ Len(emailIds) = 3
  /\ thrown = {emailIds[2]}
  /\ Len(eret) = 2
  /\ IdsOf(eret) = {emailIds[1], emailIds[3]}

\* The time a stored timestamp resolves to, epoch zero when it does not.
ResolvedTime(m) == IF m.createdAt.k = "iso" THEN m.createdAt.t ELSE 0

\* C5 (EmailsSpec): the returned sequence is ordered oldest-first: of two
\* adjacent messages the earlier has the smaller or equal resolved time.
C5_OldestFirst ==
  epc = "done" =>
    \A i \in 1..(Len(eret) - 1) : ResolvedTime(eret[i]) <= ResolvedTime(eret[i + 1])

\* C6 (EmailsSpec): a ticket without linked message ids (associations missing
\* or empty) ends the call with the empty sequence after the single ticket
\* fetch and no per-message fetch.
C6_NoLinkedMessages ==
  (ticketSeen # "none" /\ emailIds = <<>>) =>
    /\ epc = "done"
    /\ eret = <<>>
    /\ ticketFetches = 1
    /\ fetchLog = <<>>

C6_Witness ==
  /\ ticketSeen = "missing"
  /\ epc = "done"
  /\ eret = <<>>
  /\ ticketFetches = 1

----------------------------------------------------------------------------
(* Properties of the Record Mutator *)

\* C11 (CoreSpec): addNoteToTicket never throws; it returns true exactly when
\* its one upstream create call succeeded, and false when that call rejected.
C11_AddNoteNeverThrows ==
  /\ npc # "thrown"
  /\ npc = "returned" =>
       /\ ncalls = 1
       /\ nvendor \in {"ok", "rejected"}
       /\ nret = Some(nvendor = "ok")

C11_Witness ==
  /\ npc = "returned"
  /\ nvendor = "rejected"
  /\ nret = Some(FALSE)

----------------------------------------------------------------------------
(* Properties of the timestamp chain *)

\* The time a source holds when it exists and parses.
SourceTime(f, p) ==
  CASE f \in {"hs_email_date", "hs_timestamp"} /\ p.k = "ms" -> Some(p.t)
    [] f = "hs_createdate" /\ p.k = "iso" -> Some(p.t)
    [] f = "createdAt" /\ p.k \in {"date", "iso"} -> Some(p.t)
    [] OTHER -> None

SourceOrder == <<"hs_email_date", "hs_timestamp", "hs_createdate", "createdAt">>

\* The time of the first source in the order that exists and parses, the
\* current time when there is none.
RECURSIVE FirstUsable(_, _, _)
FirstUsable(rec, now, i) ==
  IF i > Len(SourceOrder) THEN now
  ELSE IF SourceTime(SourceOrder[i], rec[SourceOrder[i]]) # None
    THEN SourceTime(SourceOrder[i], rec[SourceOrder[i]])[1]
    ELSE FirstUsable(rec, now, i + 1)

\* C12 (MessageSpec): the message is returned with the time of the first
\* source, in the order hs_email_date, hs_timestamp, hs_createdate,
\* createdAt, current time, that exists and parses; a source that exists
\* but does not parse is skipped.
C12_FirstParsingSource ==
  mpc = "done" =>
    /\ mres # None
    /\ mres[1].createdAt = [k |-> "iso", t |-> FirstUsable(mrec, mnow, 1)]

\* C13 (MessageSpec): a returned message carries an ISO-8601 timestamp, and
\* a record with no timestamp source at all is returned with the current
\* time as its timestamp.
C13_AlwaysIsoTimestamp ==
  mpc = "done" =>
    /\ mres # None => mres[1].createdAt.k = "iso"
    /\ (\A f \in TimestampFields : mrec[f] = Absent) =>
         (mres # None /\ mres[1].createdAt = [k |-> "iso", t |-> mnow])

----------------------------------------------------------------------------
(* Properties of the Text Normalizer *)

\* The character ch occurs in the string s.
Occurs(ch, s) == \E i \in 1..Len(s) : s[i] = ch

\* s[i..j] is a line of s: it holds no line terminator and is bounded by line
\* terminators or the ends of s (j = i - 1 for an empty line).
IsLine(s, i, j) ==
  /\ i = 1 \/ s[i - 1] = "\n"
  /\ j = Len(s) \/ s[j + 1] = "\n"
  /\ \A k \in i..j : s[k] # "\n"

\* Every line of s holds a character other than '>' and white space.
EveryLineHasText(s) ==
  \A i \in 1..(Len(s) + 1) : \A j \in (i - 1)..Len(s) :
    IsLine(s, i, j) => \E k \in i..j : s[k] \notin {">", " "}

\* The message at hand has the markup field and no plain-text field.
MarkupOnly ==
  /\ mpc = "done"
  /\ mrec.hs_email_html # None
  /\ mrec.hs_email_text = None
  /\ mres # None

\* C14 as stated (MessageSpec): with hs_email_html set and hs_email_text
\* absent the body holds no '<', no '>' and no three line terminators in a row.
C14_NoAngleBrackets ==
  MarkupOnly =>
    /\ ~Occurs("<", mres[1].text)
    /\ ~Occurs(">", mres[1].text)
    /\ \A i \in 1..(Len(mres[1].text) - 2) :
         SubSeq(mres[1].text, i, i + 2) # <<"\n", "\n", "\n">>

\* C14 amended (MessageSpec): with hs_email_html set and hs_email_text
\* absent the body is empty or every one of its lines holds a character
\* other than '>' and white space: no blank line at all, hence no run of
\* blank lines, and no line made of '>' only; a '<' or '>' that the
\* conversion writes next to text stays in the body.
C14_NoBlankOrQuoteOnlyLines ==
  MarkupOnly => (mres[1].text = <<>> \/ EveryLineHasText(mres[1].text))

C14_Witness ==
  /\ MarkupOnly
  /\ mrec.hs_email_html = Some(<<"&lt;", "<p>", "a">>)
  /\ mres[1].text = <<"<", "\n", "a">>

\* The message at hand has the plain-text field and no markup field.
PlainTextOnly ==
  /\ mpc = "done"
  /\ mrec.hs_email_html = None
  /\ mrec.hs_email_text # None
  /\ mres # None

\* C15 as stated (MessageSpec): with the plain-text field only, the body is
\* that field with leading and trailing white space trimmed.
C15_PlainTextTrimmed ==
  PlainTextOnly => mres[1].text = trim(mrec.hs_email_text[1])

\* C15 amended (MessageSpec): with the plain-text field only, the body is
\* that field exactly as received, leading and trailing white space included.
C15_PlainTextUnchanged ==
  PlainTextOnly => mres[1].text = mrec.hs_email_text[1]

C15_Witness ==
  /\ PlainTextOnly
  /\ mrec.hs_email_text = Some(<<" ", "a">>)
  /\ mres[1].text = <<" ", "a">>

\* C16 (MessageSpec): with a non-empty markup field the result is the same
\* for every value of the plain-text field, the missing one included.
C16_MarkupAlone ==
  (mpc = "done" /\ Truthy(mrec.hs_email_html)) =>
    \A t \in TextVals :
      GetEmailContent(1, [mrec EXCEPT !.hs_email_text = t], mnow) = mres

C16_Witness ==
  /\ mpc = "done"
  /\ mrec.hs_email_html = Some(<<"<img>", "a", "<br>">>)
  /\ mrec.hs_email_text = Some(<<" ", "\n">>)
  /\ mres # None
  /\ mres[1].text = <<"a">>

----------------------------------------------------------------------------
(* Properties of error handling and of the fan-out *)

\* C17 (CoreSpec): when the upstream request of listTickets (search path or
\* listing path) or of getTicketDetails rejects, the operation rejects: it
\* has thrown and holds no result, neither an empty list nor a partial one.
C17_FailurePropagates ==
  /\ tvendor = "rejected" =>
       (tpc = "thrown" /\ tret = <<>> /\ tpath \in {"search", "list"})
  /\ tpc = "returned" => tvendor = "ok"
  /\ dvendor = "rejected" => (dpc = "thrown" /\ dret = None)
  /\ dpc = "returned" => dvendor = "ok"

C17_Witness ==
  /\ tpc = "thrown"
  /\ tpath = "search"
  /\ tvendor = "rejected"
  /\ tcalls = 1

\* The ids of a sequence are pairwise distinct.
Distinct(q) == \A i, j \in 1..Len(q) : i # j => q[i] # q[j]

\* C18 (CoreSpec): no invocation issues an upstream request twice: at most
\* one directory fetch, one ticket page or search request, one ticket detail
\* fetch and one create request per invocation, and for getTicketEmails one
\* ticket fetch and at most one fetch per linked id.
C18_NoRetries ==
  /\ fetched[1] <= 1
  /\ tcalls <= 1
  /\ dcalls <= 1
  /\ ncalls <= 1
  /\ ticketFetches <= 1
  /\ Distinct(fetchLog)
  /\ \A i \in 1..Len(fetchLog) : \E j \in 1..Len(emailIds) : fetchLog[i] = emailIds[j]

C18_Witness ==
  /\ epc = "done"
  /\ Len(emailIds) = MaxEmails
  /\ rejected = {emailIds[1], emailIds[2]}
  /\ ticketFetches = 1
  /\ Len(fetchLog) = MaxEmails

\* The per-message fetches that have been issued and have not completed.
InFlight == Len(fetchLog) - (Len(emails) + Cardinality(thrown))

\* C19 (EmailsSpec): at most one per-message fetch is in flight, the fetches
\* are issued in association order, and the fetch of the next id is issued
\* only when every earlier one has completed.
C19_SequentialFanOut ==
  /\ InFlight \in {0, 1}
  /\ fetchLog = SubSeq(emailIds, 1, Len(fetchLog))
  /\ epc = "awaitEmail" =>
       /\ InFlight = 1
       /\ Len(fetchLog) = idx
       /\ Len(emails) + Cardinality(thrown) = idx - 1
  /\ epc # "awaitEmail" => InFlight = 0

C19_Witness ==
  /\ epc = "awaitEmail"
  /\ idx = 3
  /\ fetchLog = <<emailIds[1], emailIds[2], emailIds[3]>>
  /\ Len(emails) = 1
  /\ Cardinality(rejected) = 1

----------------------------------------------------------------------------
(* Properties of the tool handlers *)

\* An upstream (vendor) request of the tool invocation at hand has failed.
VendorFailed ==
  \/ outcome[1] = "failed"
  \/ tvendor = "rejected"
  \/ dvendor = "rejected"
  \/ nvendor = "rejected"
  \/ epc = "failed"
  \/ rejected # {}
  \/ avendor = "rejected"

\* C20 (ToolsSpec): the result a tool handler builds for an invocation one
\* of whose upstream requests failed carries isError: true, whatever the tool.
C20_VendorFailureIsError ==
  (toolResult # None /\ VendorFailed) => toolResult[1].isError

----------------------------------------------------------------------------
(* Properties of the ordering of the conversation *)

\* The stored timestamp of the message resolves to a time value.
Resolves(m) == m.createdAt.k = "iso"

\* C21 (EmailsSpec): in the returned sequence a message whose stored
\* timestamp does not resolve to a time stands before every message with a
\* valid positive time, as if its time were epoch zero; and the returned
\* messages are the retained ones, stored timestamps untouched.
C21_UnresolvedAsEpochZero ==
  (epc = "done" /\ emailIds # <<>>) =>
    /\ \A i, j \in 1..Len(eret) :
         (~Resolves(eret[i]) /\ Resolves(eret[j]) /\ eret[j].createdAt.t > 0) => i < j
    /\ Len(eret) = Len(emails)
    /\ \A i \in 1..Len(emails) : \E j \in 1..Len(eret) : eret[j] = emails[i]

----------------------------------------------------------------------------
(* Properties of FirebaseApi *)

\* C22 (FirebaseSpec): when the existence check of getFirestoreDoc or of
\* getStorageFile finds nothing, the method rejects with its not-found error
\* and returns no value; getStorageFile then has issued no download.
C22_NotFoundPropagates ==
  fanswer = "missing" =>
    /\ fpc = "thrown"
    /\ ferror = "notFound"
    /\ fret = None
    /\ flog = (IF fop = "doc" THEN <<"get">> ELSE <<"exists">>)

C22_Witness ==
  /\ fop = "file"
  /\ fanswer = "missing"
  /\ fpc = "thrown"
  /\ ferror = "notFound"
  /\ flog = <<"exists">>

\* The list_tickets handler has built its result from the list it awaited.
ListTicketsDone ==
  /\ tool = "list_tickets"
  /\ toolResult # None
  /\ tpc = "returned"

\* C23 (ToolsSpec): whatever number the limit argument is, the list_tickets
\* tool returns at most limit tickets, and they are the first tickets of the
\* sequence listTickets produced, in its order (limit is held twice).
C23_AtMostLimit ==
  ListTicketsDone =>
    /\ 2 * Len(toolResult[1].value) <= toolArgs[1].limit
    /\ Len(toolResult[1].value) <= Len(tret)
    /\ toolResult[1].value = SubSeq(tret, 1, Len(toolResult[1].value))

\* C24 (OwnersSeqSpec): a directory fetch that succeeds with zero owners
\* stores the empty sequence in the cache, and the call after it issues no
\* upstream fetch; a failed fetch returns the same empty sequence to the
\* caller but leaves the cache unpopulated, and the call after it fetches anew.
C24_EmptySuccessCached ==
  /\ (pc[1] = "returned" /\ outcome[1] = "fetched" /\ owners[1] = <<>>) =>
       (ownerCache = Some(<<>>) /\ ret[1] = <<>>)
  /\ (pc[1] = "returned" /\ outcome[1] = "failed") =>
       (ownerCache = None /\ ret[1] = <<>>)
  /\ (prev = "fetched" /\ firstSuccess = Some(<<>>) /\ pc[1] # "idle") =>
       (pc[1] = "returned" /\ fetched[1] = 0 /\ ret[1] = <<>>)
  /\ (prev = "failed" /\ pc[1] # "idle") => fetched[1] = 1

C24_Witness ==
  /\ prev = "fetched"
  /\ firstSuccess = Some(<<>>)
  /\ ownerCache = Some(<<>>)
  /\ pc[1] = "returned"
  /\ kind[1] = "list"
  /\ fetched[1] = 0
  /\ directory # <<>>

\* C25 (ToolsSpec): when the ticket fetch of getTicketEmails rejects, the
\* operation rejects with it: no per-message fetch was issued, it holds no
\* sequence (neither empty nor partial), and the get_ticket_emails tool
\* reports an error; a rejected per-message fetch alone never does this.
C25_TicketFailurePropagates ==
  /\ evendor = "rejected" =>
       /\ epc = "failed"
       /\ fetchLog = <<>>
       /\ rejected = {}
       /\ emails = <<>>
       /\ eret = <<>>
       /\ (tool = "get_ticket_emails" /\ toolResult # None) => toolResult[1] = CatchResult
  /\ epc = "failed" => evendor = "rejected"
  /\ (rejected # {} /\ epc # "awaitEmail") => (epc = "done" /\ evendor = "ok")

C25_Witness ==
  /\ evendor = "rejected"
  /\ epc = "failed"
  /\ tool = "get_ticket_emails"
  /\ toolResult = Some(CatchResult)
  /\ ticketFetches = 1
  /\ fetchLog = <<>>

\* Where an id stands in the ticket's association list.
AssocIndex(id) == CHOOSE k \in 1..Len(emailIds) : emailIds[k] = id

\* C26 (ThreadSpec): two retained messages whose stored timestamps resolve to
\* the same time stand in the result in the order of their ids in the
\* ticket's association list.
C26_EqualTimesInAssociationOrder ==
  epc = "done" =>
    \A i, j \in 1..Len(eret) :
      (/\ i < j
       /\ Resolves(eret[i]) /\ Resolves(eret[j])
       /\ eret[i].createdAt.t = eret[j].createdAt.t)
        => AssocIndex(eret[i].id) < AssocIndex(eret[j].id)

\* The message at hand has a non-empty markup field: its body is the cleaned
\* conversion of the markup.
MarkupDerived ==
  /\ mpc = "done"
  /\ Truthy(mrec.hs_email_html)
  /\ mres # None

\* The converted markup of the message at hand after the line filter.
Filtered == FilterLines(htmlToText(mrec.hs_email_html[1]))

\* C27 (MessageSpec): for a markup-derived body the text after the line
\* filter has no line that is empty or made of white space and '>' only (it
\* is the empty text when the filter keeps no line), so collapsing runs of
\* three or more line terminators leaves it as it is, and the body is that
\* text trimmed.
C27_CollapseChangesNothing ==
  MarkupDerived =>
    /\ Filtered = <<>> \/ EveryLineHasText(Filtered)
    /\ \A i \in 1..(Len(Filtered) - 1) : ~(Filtered[i] = "\n" /\ Filtered[i + 1] = "\n")
    /\ CollapseNewlines(Filtered) = Filtered
    /\ mres[1].text = trim(Filtered)

C27_Witness ==
  /\ MarkupDerived
  /\ mrec.hs_email_html = Some(<<"&gt;", "<p>", "a">>)
  /\ htmlToText(mrec.hs_email_html[1]) = <<">", "\n", "\n", "a">>
  /\ Filtered = <<"a">>
  /\ mres[1].text = <<"a">>

====
